---------------------------- MODULE Spec2Model ----------------------------
(***************************************************************************)
(* CompScope: occupation matching (data_sources/onet.py) and the blended   *)
(* estimate of the web pipeline (app.py).                                  *)
(*                                                                         *)
(* Strings the code inspects character by character (titles, table keys,   *)
(* occupation codes) are sequences of one-character strings.  Confidence   *)
(* scores are integers in thousandths (1.0 is 1000); a similarity ratio is *)
(* the exact fraction 2*M / T of difflib.                                  *)
(***************************************************************************)
EXTENDS Integers, Sequences, FiniteSets, TLC

(***************************************************************************)
(* Characters                                                              *)
(***************************************************************************)

\* The characters in use, in ASCII order, so that the index orders them as
\* Python orders one-character strings.
ASCII ==
    << "\t", " ", "&", "(", ")", ",", "-", ".", "/",
       "0", "1", "2", "3", "4", "5", "6", "7", "8", "9",
       "A", "B", "C", "D", "E", "F", "G", "H", "I", "J", "K", "L", "M",
       "N", "O", "P", "Q", "R", "S", "T", "U", "V", "W", "X", "Y", "Z",
       "a", "b", "c", "d", "e", "f", "g", "h", "i", "j", "k", "l", "m",
       "n", "o", "p", "q", "r", "s", "t", "u", "v", "w", "x", "y", "z" >>

\* the position of each character, tabulated once
OrdMap ==
    [c \in {ASCII[i] : i \in 1..Len(ASCII)} |-> CHOOSE i \in 1..Len(ASCII) : ASCII[i] = c]

Ord(c) == OrdMap[c]

IsUpper(c) == Ord(c) >= Ord("A") /\ Ord(c) <= Ord("Z")

IsSpace(c) == c \in {" ", "\t"}

\* str.lower() on one character
LowerChar(c) == IF IsUpper(c) THEN ASCII[Ord(c) - Ord("A") + Ord("a")] ELSE c

\* str.lower()
Lower(s) == [i \in 1..Len(s) |-> LowerChar(s[i])]

\* str.strip(): leading and trailing whitespace removed
RECURSIVE LStrip(_)
LStrip(s) == IF s # <<>> /\ IsSpace(Head(s)) THEN LStrip(Tail(s)) ELSE s

RECURSIVE RStrip(_)
RStrip(s) ==
    IF s # <<>> /\ IsSpace(s[Len(s)]) THEN RStrip(SubSeq(s, 1, Len(s) - 1)) ELSE s

Strip(s) == RStrip(LStrip(s))

\* re.sub(r"\s+", " ", s): every run of whitespace becomes one space
RECURSIVE CollapseSpaces(_)
CollapseSpaces(s) ==
    IF s = <<>> THEN <<>>
    ELSE IF IsSpace(Head(s))
         THEN <<" ">> \o CollapseSpaces(LStrip(s))
         ELSE <<Head(s)>> \o CollapseSpaces(Tail(s))

NormalizeKeepsCase(title) == CollapseSpaces(Strip(title))

\* _normalize(title)
Normalize(title) == CollapseSpaces(Strip(Lower(title)))

\* Python's < on strings: lexicographic by code point, a proper prefix first
RECURSIVE StrLess(_, _)
StrLess(a, b) ==
    IF b = <<>> THEN FALSE
    ELSE IF a = <<>> THEN TRUE
    ELSE IF Head(a) # Head(b) THEN Ord(Head(a)) < Ord(Head(b))
    ELSE StrLess(Tail(a), Tail(b))

(***************************************************************************)
(* difflib.SequenceMatcher(None, a, b).ratio()                             *)
(***************************************************************************)

Min2(x, y) == IF x <= y THEN x ELSE y

\* length of the common run of a from i and b from j, inside [.., ahi] x [.., bhi]
RECURSIVE RunLen(_, _, _, _, _, _)
RunLen(a, i, ahi, b, j, bhi) ==
    IF i > ahi \/ j > bhi \/ a[i] # b[j] THEN 0
    ELSE 1 + RunLen(a, i + 1, ahi, b, j + 1, bhi)

\* find_longest_match(alo, ahi, blo, bhi): the longest matching block, the
\* one starting earliest in a, and of those the one starting earliest in b
\* (no junk; the popularity heuristic needs len(b) >= 200).  Bounds are
\* inclusive here; <<0, 0, 0>> when nothing matches.
FindLongestMatch(a, alo, ahi, b, blo, bhi) ==
    LET cand == {<<i, j>> \in (alo..ahi) \X (blo..bhi) : a[i] = b[j]}
        len(p) == RunLen(a, p[1], ahi, b, p[2], bhi)
    IN  IF cand = {} THEN <<0, 0, 0>>
        ELSE LET best == CHOOSE p \in cand :
                            \A q \in cand :
                               \/ len(p) > len(q)
                               \/ /\ len(p) = len(q)
                                  /\ \/ p[1] < q[1]
                                     \/ p[1] = q[1] /\ p[2] <= q[2]
             IN  <<best[1], best[2], len(best)>>

\* get_matching_blocks(): total size of the blocks, found by splitting
\* around the longest match and recursing on both sides
RECURSIVE MatchCount(_, _, _, _, _, _)
MatchCount(a, alo, ahi, b, blo, bhi) ==
    IF alo > ahi \/ blo > bhi THEN 0
    ELSE LET m == FindLongestMatch(a, alo, ahi, b, blo, bhi)
         IN  IF m[3] = 0 THEN 0
             ELSE m[3]
                  + MatchCount(a, alo, m[1] - 1, b, blo, m[2] - 1)
                  + MatchCount(a, m[1] + m[3], ahi, b, m[2] + m[3], bhi)

\* ratio() = 2.0 * matches / (len(a) + len(b)), 1.0 when both are empty;
\* kept as the fraction <<numerator, denominator>>
Ratio(a, b) ==
    IF Len(a) + Len(b) = 0 THEN <<1, 1>>
    ELSE <<2 * MatchCount(a, 1, Len(a), b, 1, Len(b)), Len(a) + Len(b)>>

(***************************************************************************)
(* The curated title table and the matcher's inputs                        *)
(***************************************************************************)

\* LOCAL_TITLE_MAP, in the table's own order: these fifteen of its rows (the
\* short keys, the "data engineer" family that shares one code, and
\* "data entry").  A code has one title throughout the table.
LOCAL_TITLE_MAP ==
    <<
       [key   |-> <<"s", "w", "e">>,
        code  |-> <<"1", "5", "-", "1", "2", "5", "2", ".", "0", "0">>,
        title |-> "Software Developers"],
       [key   |-> <<"d", "a", "t", "a", " ", "e", "n", "g", "i", "n", "e", "e", "r">>,
        code  |-> <<"1", "5", "-", "1", "2", "4", "3", ".", "0", "0">>,
        title |-> "Database Architects"],
       [key   |-> <<"s", "r", " ", "d", "a", "t", "a", " ", "e", "n", "g", "i", "n", "e", "e", "r">>,
        code  |-> <<"1", "5", "-", "1", "2", "4", "3", ".", "0", "0">>,
        title |-> "Database Architects"],
       [key   |-> <<"s", "r", ".", " ", "d", "a", "t", "a", " ", "e", "n", "g", "i", "n", "e", "e", "r">>,
        code  |-> <<"1", "5", "-", "1", "2", "4", "3", ".", "0", "0">>,
        title |-> "Database Architects"],
       [key   |-> <<"d", "a", "t", "a", " ", "e", "n", "g", "i", "n", "e", "e", "r", " ", "i", "i">>,
        code  |-> <<"1", "5", "-", "1", "2", "4", "3", ".", "0", "0">>,
        title |-> "Database Architects"],
       [key   |-> <<"d", "a", "t", "a", " ", "e", "n", "g", "i", "n", "e", "e", "r", " ", "i", "i", "i">>,
        code  |-> <<"1", "5", "-", "1", "2", "4", "3", ".", "0", "0">>,
        title |-> "Database Architects"],
       [key   |-> <<"d", "a", "t", "a", "b", "a", "s", "e", " ", "e", "n", "g", "i", "n", "e", "e", "r">>,
        code  |-> <<"1", "5", "-", "1", "2", "4", "3", ".", "0", "0">>,
        title |-> "Database Architects"],
       [key   |-> <<"s", "r", "e">>,
        code  |-> <<"1", "5", "-", "1", "2", "4", "4", ".", "0", "0">>,
        title |-> "Network and Computer Systems Administrators"],
       [key   |-> <<"c", "p", "o">>,
        code  |-> <<"1", "1", "-", "2", "0", "2", "1", ".", "0", "0">>,
        title |-> "Marketing Managers"],
       [key   |-> <<"c", "p", "a">>,
        code  |-> <<"1", "3", "-", "2", "0", "1", "1", ".", "0", "0">>,
        title |-> "Accountants and Auditors"],
       [key   |-> <<"c", "f", "o">>,
        code  |-> <<"1", "1", "-", "3", "0", "3", "1", ".", "0", "0">>,
        title |-> "Financial Managers"],
       [key   |-> <<"h", "r">>,
        code  |-> <<"1", "3", "-", "1", "0", "7", "1", ".", "0", "0">>,
        title |-> "Human Resources Specialists"],
       [key   |-> <<"c", "h", "r", "o">>,
        code  |-> <<"1", "1", "-", "3", "1", "2", "1", ".", "0", "0">>,
        title |-> "Human Resources Managers"],
       [key   |-> <<"h", "r", "b", "p">>,
        code  |-> <<"1", "3", "-", "1", "0", "7", "1", ".", "0", "0">>,
        title |-> "Human Resources Specialists"],
       [key   |-> <<"d", "a", "t", "a", " ", "e", "n", "t", "r", "y">>,
        code  |-> <<"4", "3", "-", "9", "0", "2", "1", ".", "0", "0">>,
        title |-> "Data Entry Keyers"] >>

TableKeys == {LOCAL_TITLE_MAP[i].key : i \in 1..Len(LOCAL_TITLE_MAP)}

\* LOCAL_TITLE_MAP[k], for a key k of the table
TableRow(k) ==
    LOCAL_TITLE_MAP[CHOOSE i \in 1..Len(LOCAL_TITLE_MAP) : LOCAL_TITLE_MAP[i].key = k]

\* the titles a caller passes, as typed
Titles ==
    {
      <<"D", "a", "t", "a", " ", "E", "n", "g", "i", "n", "e", "e", "r">>,
      <<"d", "a", "t", "a", " ", "\t", "e", "n", "g", "i", "n", "e", "e", "r">>,
      <<"s", "r", " ", "d", "a", "t", "a", " ", "e", "n", "g", "r">>,
      <<"c", "p">>,
      <<"h", "r", "o">>,
      <<" ", "S", "W", "E", "\t">>,
      <<"z", "z", "z">>,
      <<"h", "r", "b">>,
      <<"d", "a", "t", "a", " ", "e", "n", "t", "r">> }

\* max_results: the default, and smaller values a caller may pass
DefaultMaxResults == 5

MaxResultsChoices == {1, 2, DefaultMaxResults}

\* ONET_USERNAME: empty when no credential is configured
Usernames == {"", "compscope"}

(***************************************************************************)
(* The external lookup collaborator (O*NET keyword search)                 *)
(***************************************************************************)

\* An optional value: <<>> is a missing key (or None), <<v>> is the value v.
None == <<>>

Some(v) == <<v>>

\* The occupations a response may list.  "code" and "relevance_score" may
\* be missing from an entry; the score is whatever number the service sends
\* (in thousandths here).
ApiOccupations ==
    { [code  |-> Some(<<"1", "5", "-", "1", "2", "4", "3", ".", "0", "0">>),
       title |-> "Database Architects", relevance_score |-> Some(1000)],
      [code  |-> Some(<<"1", "5", "-", "1", "2", "5", "2", ".", "0", "0">>),
       title |-> "Software Developers", relevance_score |-> None],
      [code  |-> Some(<<"1", "5", "-", "1", "2", "5", "2", ".", "0", "0">>),
       title |-> "Software Developers", relevance_score |-> Some(950)],
      [code  |-> Some(<<"1", "3", "-", "2", "0", "1", "1", ".", "0", "0">>),
       title |-> "Accountants and Auditors", relevance_score |-> Some(900)],
      [code  |-> None,
       title |-> "Web Developers", relevance_score |-> Some(85000)] }

\* the longest "occupation" list of a response
MaxApiLen == 2

RECURSIVE SeqsUpTo(_, _)
SeqsUpTo(S, n) ==
    IF n = 0 THEN {<<>>}
    ELSE LET shorter == SeqsUpTo(S, n - 1)
         IN  shorter \cup {Append(q, x) : q \in {r \in shorter : Len(r) = n - 1}, x \in S}

\* What one request to the service ends in: a failure (transport error,
\* timeout, HTTP error status, a body that is not JSON or not of the
\* expected shape), or a parsed body with its "occupation" list.
ApiOutcomes ==
    {[ok |-> FALSE, occupation |-> <<>>]}
        \cup {[ok |-> TRUE, occupation |-> q] : q \in SeqsUpTo(ApiOccupations, MaxApiLen)}

(***************************************************************************)
(* ONETClient.search_occupations                                           *)
(***************************************************************************)

VARIABLES
    pc,           \* where the current search_occupations call stands
    username,     \* self.username
    title,        \* the title argument
    max_results,  \* the max_results argument
    normalized,   \* _normalize(title)
    results,      \* the list being built
    seen_codes,   \* the codes already in results
    scored,       \* the fuzzy candidates, sorted
    api_calls,    \* how often this call invoked _api_search
    returned      \* the list handed to the caller

matchVars ==
    <<pc, username, title, max_results, normalized, results, seen_codes,
      scored, api_calls, returned>>

VARIABLES
    app_pc,         \* where the request stands
    geo,            \* the resolved geography
    bls_rows,       \* level -> BLS record, None when the level has no row
    js_levels,      \* level -> JSearch record, None when missing
    us_local,       \* uj_stats of the local federal postings
    us_natl,        \* uj_stats of the national federal postings
    local_medians,  \* metro and state medians
    natl_medians,   \* national medians
    blend_medians,  \* the list the estimate is computed from
    estimate        \* the blended estimate shown, None when none is shown

blendVars ==
    <<app_pc, geo, bls_rows, js_levels, us_local, us_natl, local_medians,
      natl_medians, blend_medians, estimate>>

\* resolve_msa behind its lru_cache: the cache (least recently used first),
\* each thread's position, argument, computed result and the geocoder's
\* answer to it (None when not asked), what each thread's last call returned, and the record of the calls made so far
VARIABLES geo_cache, geo_pc, geo_arg, geo_res, geo_answer, geo_ret, geocode_calls,
          geo_outs, geo_ncalls

geoVars == <<geo_cache, geo_pc, geo_arg, geo_res, geo_answer, geo_ret, geocode_calls,
             geo_outs, geo_ncalls>>

\* the request around the matcher: which front end runs it, and the
\* command-line run's position and wage lookup
VARIABLES frontend, cli_pc, cli_queried, cli_answers, cli_data, cli_level

cliVars == <<frontend, cli_pc, cli_queried, cli_answers, cli_data, cli_level>>

\* one call of a wage-source adapter: which operation, the collaborator's
\* answer, and what the operation gave back
VARIABLES ad_call, ad_resp, ad_out

adapterVars == <<ad_call, ad_resp, ad_out>>

\* one call of SOCMapper: which operation, its argument, clean(argument),
\* clean(clean(argument)) and fallback_chain(argument)
VARIABLES soc_call, soc_arg, soc_clean, soc_reclean, soc_chain

socVars == <<soc_call, soc_arg, soc_clean, soc_reclean, soc_chain>>

utilVars == <<adapterVars, socVars>>

AtLeastHalf(ratio) == ratio[1] * 100 >= 50 * ratio[2]

\* ratio >= 0.68
AtLeastThreshold(ratio) == ratio[1] * 100 >= 68 * ratio[2]

\* round(ratio, 3), in thousandths; a tie goes to the even neighbour
Round3(ratio) ==
    LET f == (1000 * ratio[1]) \div ratio[2]
        r == (1000 * ratio[1]) % ratio[2]
    IN  IF 2 * r < ratio[2] THEN f
        ELSE IF 2 * r > ratio[2] THEN f + 1
        ELSE IF f % 2 = 0 THEN f ELSE f + 1

RatioLess(x, y) == x[1] * y[2] < y[1] * x[2]

RatioEq(x, y) == x[1] * y[2] = y[1] * x[2]

\* Python's < on the tuples (ratio, code, onet_title, key); equal codes
\* have equal titles, so the key decides after the code
ScoredLess(x, y) ==
    \/ RatioLess(x.ratio, y.ratio)
    \/ /\ RatioEq(x.ratio, y.ratio)
       /\ \/ StrLess(x.code, y.code)
          \/ x.code = y.code /\ StrLess(x.key, y.key)

\* every key of the table with its ratio to the normalized title
Candidates(norm) ==
    { [ratio |-> Ratio(norm, LOCAL_TITLE_MAP[i].key),
       code  |-> LOCAL_TITLE_MAP[i].code,
       title |-> LOCAL_TITLE_MAP[i].title,
       key   |-> LOCAL_TITLE_MAP[i].key] : i \in 1..Len(LOCAL_TITLE_MAP) }

\* scored.sort(reverse=True)
RECURSIVE SortDescending(_)
SortDescending(S) ==
    IF S = {} THEN <<>>
    ELSE LET top == CHOOSE x \in S : \A y \in S : y = x \/ ScoredLess(y, x)
         IN  <<top>> \o SortDescending(S \ {top})

Scored(norm) ==
    SortDescending({c \in Candidates(norm) : AtLeastThreshold(c.ratio)})

\* scored[:n], results[:n] for n >= 0
Prefix(s, n) == SubSeq(s, 1, Min2(n, Len(s)))

Codes(res) == {res[i].code : i \in 1..Len(res)}

ExactResult(norm) ==
    [code   |-> TableRow(norm).code,
     title  |-> TableRow(norm).title,
     score  |-> 1000,
     source |-> "local_map",
     key    |-> norm]

FuzzyResult(c) ==
    [code   |-> c.code,
     title  |-> c.title,
     score  |-> Round3(c.ratio),
     source |-> "fuzzy",
     key    |-> c.key]

AppendAll(res, new) == res \o new

\* the loop over the candidates: a code already seen is skipped
RECURSIVE AppendUnseen(_, _)
AppendUnseen(res, new) ==
    IF new = <<>> THEN res
    ELSE IF Head(new).code \notin Codes(res)
         THEN AppendUnseen(Append(res, Head(new)), Tail(new))
         ELSE AppendUnseen(res, Tail(new))

\* the candidates the fuzzy loop walks
FuzzyWalked(sc, maxr) == Prefix(sc, maxr)

FuzzyStepResults(res, sc, maxr) ==
    AppendUnseen(res, [i \in 1..Len(FuzzyWalked(sc, maxr)) |-> FuzzyResult(FuzzyWalked(sc, maxr)[i])])

\* _api_search: the entries of the response as results, [] on any failure
ApiResult(occ) ==
    [code   |-> IF occ.code = None THEN <<>> ELSE occ.code[1],
     title  |-> occ.title,
     score  |-> IF occ.relevance_score = None THEN 500 ELSE occ.relevance_score[1],
     source |-> "onet_api",
     key    |-> <<>>]

ApiSearch(outcome) ==
    IF ~outcome.ok THEN <<>>
    ELSE [i \in 1..Len(outcome.occupation) |-> ApiResult(outcome.occupation[i])]

NeedApiNoCredential(res, user) == Len(res) < 2

\* the condition under which the external step runs
NeedApi(res, user) == Len(res) < 2 /\ user # ""

StartSearch(t, m) ==
    /\ pc = "idle"
    /\ title' = t
    /\ max_results' = m
    /\ normalized' = Normalize(t)
    /\ results' = <<>>
    /\ pc' = "exact"
    /\ UNCHANGED <<username, seen_codes, scored, api_calls, returned>>
    /\ UNCHANGED <<blendVars, geoVars, cliVars, utilVars>>

ExactStep ==
    /\ pc = "exact"
    /\ results' = IF normalized \in TableKeys
                  THEN Append(results, ExactResult(normalized))
                  ELSE results
    /\ pc' = "fuzzy"
    /\ UNCHANGED <<username, title, max_results, normalized, seen_codes, scored,
                   api_calls, returned>>
    /\ UNCHANGED <<blendVars, geoVars, cliVars, utilVars>>

FuzzyStep ==
    /\ pc = "fuzzy"
    /\ scored' = Scored(normalized)
    /\ results' = FuzzyStepResults(results, scored', max_results)
    /\ seen_codes' = Codes(results')
    /\ pc' = "api"
    /\ UNCHANGED <<username, title, max_results, normalized, api_calls, returned>>
    /\ UNCHANGED <<blendVars, geoVars, cliVars, utilVars>>

ApiStep ==
    /\ pc = "api"
    /\ NeedApi(results, username)
    /\ \E outcome \in ApiOutcomes :
          results' = AppendUnseen(results, ApiSearch(outcome))
    /\ seen_codes' = Codes(results')
    /\ api_calls' = api_calls + 1
    /\ pc' = "return"
    /\ UNCHANGED <<username, title, max_results, normalized, scored, returned>>
    /\ UNCHANGED <<blendVars, geoVars, cliVars, utilVars>>

ApiSkip ==
    /\ pc = "api"
    /\ ~NeedApi(results, username)
    /\ pc' = "return"
    /\ UNCHANGED <<username, title, max_results, normalized, results, seen_codes,
                   scored, api_calls, returned>>
    /\ UNCHANGED <<blendVars, geoVars, cliVars, utilVars>>

Return ==
    /\ pc = "return"
    /\ returned' = Prefix(results, max_results)
    /\ pc' = "done"
    /\ UNCHANGED <<username, title, max_results, normalized, results, seen_codes,
                   scored, api_calls>>
    /\ UNCHANGED <<blendVars, geoVars, cliVars, utilVars>>

(***************************************************************************)
(* The web pipeline after the occupation is chosen (app.py): the three     *)
(* sources and the blended estimate                                        *)
(***************************************************************************)

\* the annual medians the wage survey may report
BlsMedianValues == {80000, 90000, 95000}

\* the annual medians the live postings may yield
JsMedianValues == {95001}

\* A median as a source hands it over: a number, or a value that float()
\* cannot read (BLS's "-" placeholder, JSearch's None).
Num(v) == [numeric |-> TRUE, value |-> v]

Unreadable == [numeric |-> FALSE, value |-> 0]

\* safe_float(val): the number, or None
SafeFloat(raw) == IF raw.numeric THEN Some(raw.value) ELSE None

\* BLSClient.get_oews as the pipeline sees it: None, or a record whose
\* median is a non-empty string (a number or the placeholder)
BlsResults == {None} \cup {Some(Unreadable)} \cup {Some(Num(v)) : v \in BlsMedianValues}

\* one level of JSearchClient.get_geo_levels: missing, or a record whose
\* median is an integer (0 when only a percentile came) or None
JsResults ==
    {None} \cup {Some(Unreadable)} \cup {Some(Num(0))}
        \cup {Some(Num(v)) : v \in JsMedianValues}

Levels == <<"metro", "state", "national">>

\* resolve_msa(location), as far as the pipeline reads it
Geos ==
    { [msa_code |-> m, state_code |-> st] :
        m \in {None, Some("M1242000")}, st \in {None, Some("S4800000")} }

\* the postings USAJobsClient.search may return
UjPostings ==
    { [salary_min |-> 60000, salary_max |-> Some(80000)],
      [salary_min |-> 120000, salary_max |-> None] }

\* the longest list of postings of one search
MaxPostings == 1

NoRows == [lvl \in {"metro", "state", "national"} |-> None]

\* m = safe_float(d.get("median")); if m: ...
Truthy(m) == m # None /\ m[1] # 0

\* the loop over metro, state, national of one source: the medians it adds
\* to local_medians (local = TRUE) or to natl_medians (local = FALSE)
RECURSIVE LevelMedians(_, _, _)
LevelMedians(rows, local, i) ==
    IF i > Len(Levels) THEN <<>>
    ELSE LET lvl  == Levels[i]
             m    == IF rows[lvl] = None THEN None ELSE SafeFloat(rows[lvl][1])
             mine == (lvl = "national") # local
         IN  (IF rows[lvl] # None /\ Truthy(m) /\ mine THEN <<m[1]>> ELSE <<>>)
                 \o LevelMedians(rows, local, i + 1)

RECURSIVE SumSeq(_)
SumSeq(s) == IF s = <<>> THEN 0 ELSE Head(s) + SumSeq(Tail(s))

MinSeq(s) == CHOOSE x \in {s[i] : i \in 1..Len(s)} : \A i \in 1..Len(s) : x <= s[i]

MaxSeq(s) == CHOOSE x \in {s[i] : i \in 1..Len(s)} : \A i \in 1..Len(s) : x >= s[i]

\* round(num / den) for num >= 0, den > 0: to the nearest integer, a tie
\* to the even one
RoundDiv(num, den) ==
    LET f == num \div den
        r == num % den
    IN  IF 2 * r < den THEN f
        ELSE IF 2 * r > den THEN f + 1
        ELSE IF f % 2 = 0 THEN f ELSE f + 1

FloorMean(s) == SumSeq(s) \div Len(s)

\* round(statistics.mean(s))
RoundMean(s) == RoundDiv(SumSeq(s), Len(s))

\* sorted(s)
RECURSIVE SortAscending(_)
SortAscending(s) ==
    IF s = <<>> THEN <<>>
    ELSE LET i == CHOOSE i \in 1..Len(s) : \A j \in 1..Len(s) : s[i] <= s[j]
         IN  <<s[i]>> \o SortAscending(SubSeq(s, 1, i - 1) \o SubSeq(s, i + 1, Len(s)))

\* round(statistics.median(s)): the middle value, or the mean of the two
\* middle values
RoundMedian(s) ==
    LET t == SortAscending(s)
        n == Len(t)
    IN  IF n % 2 = 1 THEN t[(n + 1) \div 2]
        ELSE RoundDiv(t[n \div 2] + t[n \div 2 + 1], 2)

RECURSIVE MaxSalaries(_)
MaxSalaries(posts) ==
    IF posts = <<>> THEN <<>>
    ELSE (IF Head(posts).salary_max # None /\ Head(posts).salary_max[1] # 0
          THEN <<Head(posts).salary_max[1]>> ELSE <<>>) \o MaxSalaries(Tail(posts))

RECURSIVE MinSalaries(_)
MinSalaries(posts) ==
    IF posts = <<>> THEN <<>>
    ELSE (IF Head(posts).salary_min # 0 THEN <<Head(posts).salary_min>> ELSE <<>>)
             \o MinSalaries(Tail(posts))

\* uj_stats(posts) if posts else None
UjStats(posts) ==
    LET mins == MinSalaries(posts)
        maxs == MaxSalaries(posts)
    IN  IF posts = <<>> \/ mins = <<>> THEN None
        ELSE Some([median |-> RoundMedian(mins \o maxs),
                   min    |-> MinSeq(mins),
                   max    |-> IF maxs = <<>> THEN None ELSE Some(MaxSeq(maxs)),
                   count  |-> Len(posts)])

AfterUsaJobsBlended(medians, stats) ==
    IF stats = None THEN medians ELSE Append(medians, stats[1].median)

\* what the USAJobs section does to a list of medians: nothing
AfterUsaJobs(medians, stats) == medians

BlendAllMedians(local, natl) == local \o natl

\* blend_medians = local_medians if local_medians else natl_medians
BlendMedians(local, natl) == IF local # <<>> THEN local ELSE natl

\* the figures of the blend box
BlendBox(medians, local) ==
    [value |-> RoundMean(medians),
     scope |-> IF local # <<>> THEN "local" ELSE "national-fallback",
     low   |-> MinSeq(medians),
     high  |-> MaxSeq(medians),
     count |-> Len(medians)]

\* SOURCE 1: the BLS rows (metro and state only when the area id was
\* resolved) and their medians
BlsStep ==
    /\ app_pc = "bls"
    /\ \E m \in (IF geo.msa_code # None THEN BlsResults ELSE {None}),
          st \in (IF geo.state_code # None THEN BlsResults ELSE {None}),
          n \in BlsResults :
          bls_rows' = [metro |-> m, state |-> st, national |-> n]
    /\ local_medians' = local_medians \o LevelMedians(bls_rows', TRUE, 1)
    /\ natl_medians' = natl_medians \o LevelMedians(bls_rows', FALSE, 1)
    /\ app_pc' = "jsearch"
    /\ UNCHANGED <<geo, js_levels, us_local, us_natl, blend_medians, estimate>>
    /\ UNCHANGED <<matchVars, geoVars, cliVars, utilVars>>

\* SOURCE 2: the JSearch levels and their medians
JSearchStep ==
    /\ app_pc = "jsearch"
    /\ \E m \in JsResults, st \in JsResults, n \in JsResults :
          js_levels' = [metro |-> m, state |-> st, national |-> n]
    /\ local_medians' = local_medians \o LevelMedians(js_levels', TRUE, 1)
    /\ natl_medians' = natl_medians \o LevelMedians(js_levels', FALSE, 1)
    /\ app_pc' = "usajobs"
    /\ UNCHANGED <<geo, bls_rows, us_local, us_natl, blend_medians, estimate>>
    /\ UNCHANGED <<matchVars, geoVars, cliVars, utilVars>>

\* SOURCE 3: the federal postings, shown and not blended
UsaJobsStep ==
    /\ app_pc = "usajobs"
    /\ \E uj_local \in SeqsUpTo(UjPostings, MaxPostings),
          uj_national \in SeqsUpTo(UjPostings, MaxPostings) :
          /\ us_local' = UjStats(uj_local)
          /\ us_natl' = UjStats(uj_national)
    /\ local_medians' = AfterUsaJobs(local_medians, us_local')
    /\ natl_medians' = AfterUsaJobs(natl_medians, us_natl')
    /\ app_pc' = "blend"
    /\ UNCHANGED <<geo, bls_rows, js_levels, blend_medians, estimate>>
    /\ UNCHANGED <<matchVars, geoVars, cliVars, utilVars>>

\* an adapter call raises: nothing in the script catches it, the request
\* ends there
AdapterRaises ==
    /\ app_pc \in {"bls", "jsearch", "usajobs"}
    /\ app_pc' = "aborted"
    /\ UNCHANGED <<geo, bls_rows, js_levels, us_local, us_natl, local_medians,
                   natl_medians, blend_medians, estimate>>
    /\ UNCHANGED <<matchVars, geoVars, cliVars, utilVars>>

\* BLENDED ESTIMATE
BlendStep ==
    /\ app_pc = "blend"
    /\ blend_medians' = BlendMedians(local_medians, natl_medians)
    /\ estimate' = IF blend_medians' # <<>>
                   THEN Some(BlendBox(blend_medians', local_medians))
                   ELSE None
    /\ app_pc' = "done"
    /\ UNCHANGED <<geo, bls_rows, js_levels, us_local, us_natl, local_medians,
                   natl_medians>>
    /\ UNCHANGED <<matchVars, geoVars, cliVars, utilVars>>

(***************************************************************************)
(* Geography resolution (utils/geo.py): "City, ST" to area codes           *)
(***************************************************************************)

IsLower(c) == Ord(c) >= Ord("a") /\ Ord(c) <= Ord("z")

\* str.upper() on one character
UpperChar(c) == IF IsLower(c) THEN ASCII[Ord(c) - Ord("a") + Ord("A")] ELSE c

\* str.upper()
Upper(s) == [i \in 1..Len(s) |-> UpperChar(s[i])]

\* the position of the last comma, 0 when there is none
LastComma(s) ==
    IF \E i \in 1..Len(s) : s[i] = ","
    THEN CHOOSE i \in 1..Len(s) : s[i] = "," /\ \A j \in (i + 1)..Len(s) : s[j] # ","
    ELSE 0

\* location_str.rsplit(",", 1), each part stripped
RSplitComma(s) ==
    IF LastComma(s) = 0 THEN << Strip(s) >>
    ELSE << Strip(SubSeq(s, 1, LastComma(s) - 1)),
            Strip(SubSeq(s, LastComma(s) + 1, Len(s))) >>

\* the state part cut to its first two characters without upper-casing
ParseLocationKeepsCase(location_str) ==
    LET parts == RSplitComma(Strip(location_str))
    IN  IF Len(parts) = 2
        THEN [city |-> Lower(parts[1]), state |-> Prefix(parts[2], 2)]
        ELSE [city |-> Lower(Strip(location_str)), state |-> <<>>]

\* _parse_location: (city lower-cased, first two characters of the
\* upper-cased text after the last comma), or (whole string, "")
ParseLocation(location_str) ==
    LET parts == RSplitComma(Strip(location_str))
    IN  IF Len(parts) = 2
        THEN [city |-> Lower(parts[1]), state |-> Prefix(Upper(parts[2]), 2)]
        ELSE [city |-> Lower(Strip(location_str)), state |-> <<>>]

\* rows of the state table
STATE_FIPS ==
    (<<"T", "X">> :> <<"4", "8">>) @@ (<<"M", "I">> :> <<"2", "6">>) @@ (<<"M", "S">> :> <<"2", "8">>) @@ (<<"P", "A">> :> <<"4", "2">>) @@ (<<"K", "S">> :> <<"2", "0">>)

STATE_NAMES ==
    (<<"4", "8">> :> <<"T", "e", "x", "a", "s">>) @@ (<<"2", "6">> :> <<"M", "i", "c", "h", "i", "g", "a", "n">>) @@ (<<"2", "8">> :> <<"M", "i", "s", "s", "i", "s", "s", "i", "p", "p", "i">>) @@
    (<<"4", "2">> :> <<"P", "e", "n", "n", "s", "y", "l", "v", "a", "n", "i", "a">>) @@ (<<"2", "0">> :> <<"K", "a", "n", "s", "a", "s">>)

\* rows of the metro table: CBSA code to (area code, metro name)
CBSA_TO_BLS ==
    (<<"1", "2", "4", "2", "0">> :> [bls_code |-> <<"M", "1", "2", "4", "2", "0", "0", "0">>, metro_name |-> "Austin-Round Rock-Georgetown, TX"]) @@
    (<<"2", "8", "1", "4", "0">> :> [bls_code |-> <<"M", "2", "8", "1", "4", "0", "0", "0">>, metro_name |-> "Kansas City, MO-KS"]) @@
    (<<"3", "9", "3", "0", "0">> :> [bls_code |-> <<"M", "3", "9", "3", "0", "0", "0", "0">>, metro_name |-> "Providence-Warwick, RI-MA"])

\* rows of the city table, in table order; the code of ("pittsburgh", "pa")
\* and of ("portland", "me") has no row in CBSA_TO_BLS
CITY_TO_CBSA ==
    << [city |-> <<"a", "u", "s", "t", "i", "n">>, state |-> <<"t", "x">>, cbsa |-> <<"1", "2", "4", "2", "0">>],
       [city |-> <<"p", "o", "r", "t", "l", "a", "n", "d">>, state |-> <<"o", "r">>, cbsa |-> <<"3", "9", "3", "0", "0">>],
       [city |-> <<"p", "i", "t", "t", "s", "b", "u", "r", "g", "h">>, state |-> <<"p", "a">>, cbsa |-> <<"3", "8", "3", "0", "0">>],
       [city |-> <<"p", "o", "r", "t", "l", "a", "n", "d">>, state |-> <<"m", "e">>, cbsa |-> <<"3", "8", "8", "6", "0">>] >>

\* STATE_FIPS.get(state)
StateFips(state) ==
    IF state \in DOMAIN STATE_FIPS THEN Some(STATE_FIPS[state]) ELSE None

\* f"S{state_fips}00000" if state_fips else None
StateCode(state_fips) ==
    IF state_fips # None /\ state_fips[1] # <<>>
    THEN Some(<<"S">> \o state_fips[1] \o <<"0", "0", "0", "0", "0">>)
    ELSE None

\* STATE_NAMES.get(state_fips, state)
StateName(state_fips, state) ==
    IF state_fips # None /\ state_fips[1] \in DOMAIN STATE_NAMES
    THEN STATE_NAMES[state_fips[1]]
    ELSE state

\* the result before any metro is known
BaseResult(state) ==
    [msa_code   |-> None,
     msa_name   |-> None,
     cbsa_fips  |-> None,
     state_code |-> StateCode(StateFips(state)),
     state_name |-> StateName(StateFips(state), state),
     state_abbr |-> state]

\* the code of the first of the given rows of the city table, if any
FirstRow(rows) ==
    IF rows = {} THEN None
    ELSE Some(CITY_TO_CBSA[CHOOSE i \in rows : \A j \in rows : i <= j].cbsa)

\* CITY_TO_CBSA.get((city, state.lower()))
ExactCbsa(city, state) ==
    FirstRow({i \in 1..Len(CITY_TO_CBSA) :
                 CITY_TO_CBSA[i].city = city /\ CITY_TO_CBSA[i].state = Lower(state)})

\* the loop over the table for the city name alone
CityOnlyCbsa(city) ==
    FirstRow({i \in 1..Len(CITY_TO_CBSA) : CITY_TO_CBSA[i].city = city})

\* 1. the hardcoded lookup: the exact pair, else the city alone when a
\* state was given
StaticCbsa(city, state) ==
    IF ExactCbsa(city, state) = None /\ state # <<>>
    THEN CityOnlyCbsa(city)
    ELSE ExactCbsa(city, state)

\* result.update({...}) from a row of CBSA_TO_BLS
WithMetro(result, cbsa) ==
    [result EXCEPT !.msa_code  = Some(CBSA_TO_BLS[cbsa].bls_code),
                   !.msa_name  = Some(CBSA_TO_BLS[cbsa].metro_name),
                   !.cbsa_fips = Some(cbsa)]

\* the hardcoded lookup produced a metro: resolve_msa returns before the
\* geocoder
StaticHit(location_str) ==
    LET p    == ParseLocation(location_str)
        cbsa == StaticCbsa(p.city, p.state)
    IN  cbsa # None /\ cbsa[1] \in DOMAIN CBSA_TO_BLS

\* What one _census_geocode call ends in: an exception (transport error,
\* timeout, a body that is not JSON or not of the expected shape), None (no
\* address match, no metropolitan area), or a record with the GEOID found
\* ("" when the entry has none).
GeocodeOutcomes ==
    { [ok |-> FALSE, result |-> None], [ok |-> TRUE, result |-> None] }
      \cup { [ok |-> TRUE, result |-> Some(g)] :
               g \in { <<"2", "8", "1", "4", "0">>, <<"9", "9", "9", "9", "9">>, <<>> } }

\* a failure of the geocoder wipes the state fields
AfterGeocodeDropsState(result, outcome) ==
    IF ~outcome.ok
    THEN [result EXCEPT !.state_code = None, !.state_name = <<>>, !.state_abbr = <<>>]
    ELSE IF outcome.result # None /\ outcome.result[1] \in DOMAIN CBSA_TO_BLS
         THEN WithMetro(result, outcome.result[1])
         ELSE result

\* 2. the geocoding fallback inside its try/except
AfterGeocode(result, outcome) ==
    IF /\ outcome.ok
       /\ outcome.result # None
       /\ outcome.result[1] # <<>>
       /\ outcome.result[1] \in DOMAIN CBSA_TO_BLS
    THEN WithMetro(result, outcome.result[1])
    ELSE result

\* resolve_msa, given what the geocoder would answer if it were asked
ResolveMsa(location_str, outcome) ==
    LET p == ParseLocation(location_str)
    IN  IF StaticHit(location_str)
        THEN WithMetro(BaseResult(p.state), StaticCbsa(p.city, p.state)[1])
        ELSE AfterGeocode(BaseResult(p.state), outcome)

\* the location strings of the requests
Locations ==
    { << "A", "u", "s", "t", "i", "n", ",", " ", "T", "X" >>,
      << " ", "a", "u", "s", "t", "i", "n", ",", " ", "t", "x" >>,
      << "A", "u", "s", "t", "i", "n" >>,
      << "A", "u", "s", "t", "i", "n", ",", " ", "Z", "Z" >>,
      << "P", "o", "r", "t", "l", "a", "n", "d", ",", " ", "T", "X" >>,
      << "T", "u", "p", "e", "l", "o", ",", " ", "M", "i", "s", "s", "i", "s", "s", "i", "p", "p", "i" >>,
      << "P", "i", "t", "t", "s", "b", "u", "r", "g", "h", ",", " ", "P", "A" >>,
      << "S", "m", "a", "l", "l", "v", "i", "l", "l", "e", ",", " ", "K", "S" >>,
      << "s", "m", "a", "l", "l", "v", "i", "l", "l", "e", ",", " ", "k", "s", " " >> }

\* the threads serving requests in one process
Threads == {1, 2}

\* the calls of resolve_msa followed
MaxGeoCalls == 3

\* the capacity of the cache (maxsize=256 in the source), scaled down
CacheMaxSize == 1

CacheKeys(cache) == {cache[i].key : i \in 1..Len(cache)}

CacheIndex(cache, k) == CHOOSE i \in 1..Len(cache) : cache[i].key = k

\* a hit makes the entry the most recently used
Touch(cache, k) ==
    LET i == CacheIndex(cache, k)
    IN  SubSeq(cache, 1, i - 1) \o SubSeq(cache, i + 1, Len(cache)) \o << cache[i] >>

\* the entry is stored only if the key is still missing; a full cache drops
\* its least recently used entry
Store(cache, k, v) ==
    IF k \in CacheKeys(cache) THEN cache
    ELSE IF Len(cache) >= CacheMaxSize
         THEN Tail(cache) \o << [key |-> k, value |-> v] >>
         ELSE cache \o << [key |-> k, value |-> v] >>

Returns(t, loc, v) ==
    /\ geo_ret' = [geo_ret EXCEPT ![t] = Some([arg |-> loc, value |-> v])]
    /\ geo_outs' = [geo_outs EXCEPT ![loc] = @ \cup {v}]

\* resolve_msa(loc) finds loc in the cache
CacheHit(t, loc) ==
    /\ geo_pc[t] = "idle"
    /\ geo_ncalls < MaxGeoCalls
    /\ loc \in CacheKeys(geo_cache)
    /\ geo_cache' = Touch(geo_cache, loc)
    /\ Returns(t, loc, geo_cache[CacheIndex(geo_cache, loc)].value)
    /\ geo_ncalls' = geo_ncalls + 1
    /\ UNCHANGED <<geo_pc, geo_arg, geo_res, geo_answer, geocode_calls>>
    /\ UNCHANGED <<matchVars, blendVars, cliVars, utilVars>>

\* resolve_msa(loc) does not find loc: the function body is to run
CacheMiss(t, loc) ==
    /\ geo_pc[t] = "idle"
    /\ geo_ncalls < MaxGeoCalls
    /\ loc \notin CacheKeys(geo_cache)
    /\ geo_pc' = [geo_pc EXCEPT ![t] = "resolving"]
    /\ geo_arg' = [geo_arg EXCEPT ![t] = loc]
    /\ geo_ncalls' = geo_ncalls + 1
    /\ UNCHANGED <<geo_cache, geo_res, geo_answer, geo_ret, geocode_calls, geo_outs>>
    /\ UNCHANGED <<matchVars, blendVars, cliVars, utilVars>>

\* the body returns from the hardcoded lookup
ResolveStatic(t) ==
    /\ geo_pc[t] = "resolving"
    /\ StaticHit(geo_arg[t])
    /\ geo_res' = [geo_res EXCEPT ![t] = Some(ResolveMsa(geo_arg[t], [ok |-> FALSE, result |-> None]))]
    /\ geo_answer' = [geo_answer EXCEPT ![t] = None]
    /\ geo_pc' = [geo_pc EXCEPT ![t] = "publish"]
    /\ UNCHANGED <<geo_cache, geo_arg, geo_ret, geocode_calls, geo_outs, geo_ncalls>>
    /\ UNCHANGED <<matchVars, blendVars, cliVars, utilVars>>

\* the body asks the geocoder
ResolveGeocode(t) ==
    /\ geo_pc[t] = "resolving"
    /\ ~StaticHit(geo_arg[t])
    /\ \E outcome \in GeocodeOutcomes :
          /\ geo_res' = [geo_res EXCEPT ![t] = Some(ResolveMsa(geo_arg[t], outcome))]
          /\ geo_answer' = [geo_answer EXCEPT ![t] = Some(outcome)]
    /\ geocode_calls' = [geocode_calls EXCEPT ![geo_arg[t]] = @ + 1]
    /\ geo_pc' = [geo_pc EXCEPT ![t] = "publish"]
    /\ UNCHANGED <<geo_cache, geo_arg, geo_ret, geo_outs, geo_ncalls>>
    /\ UNCHANGED <<matchVars, blendVars, cliVars, utilVars>>

\* the wrapper stores the result and returns it
Publish(t) ==
    /\ geo_pc[t] = "publish"
    /\ geo_cache' = Store(geo_cache, geo_arg[t], geo_res[t][1])
    /\ Returns(t, geo_arg[t], geo_res[t][1])
    /\ geo_pc' = [geo_pc EXCEPT ![t] = "idle"]
    /\ UNCHANGED <<geo_arg, geo_res, geo_answer, geocode_calls, geo_ncalls>>
    /\ UNCHANGED <<matchVars, blendVars, cliVars, utilVars>>

(***************************************************************************)
(* One request of a front end: the match, the hard stop, the wage sources  *)
(* (app.py 108-166, cli.py 33-80)                                          *)
(***************************************************************************)

\* an empty match list never stops the request
NoMatchIgnored(matches) == FALSE

\* if not soc_matches / if not matches
NoMatch(matches) == matches = <<>>

\* the front end calls search_occupations(job_title)
RequestSearch(t) ==
    /\ app_pc = "match" \/ cli_pc = "match"
    /\ StartSearch(t, DefaultMaxResults)

\* web: st.error(...); st.stop()
WebHardStop ==
    /\ app_pc = "match"
    /\ pc = "done"
    /\ NoMatch(returned)
    /\ app_pc' = "stopped"
    /\ UNCHANGED <<geo, bls_rows, js_levels, us_local, us_natl, local_medians,
                   natl_medians, blend_medians, estimate>>
    /\ UNCHANGED <<matchVars, geoVars, cliVars, utilVars>>

\* web: an occupation is chosen among the matches, the sources follow
WebChoose ==
    /\ app_pc = "match"
    /\ pc = "done"
    /\ ~NoMatch(returned)
    /\ app_pc' = "bls"
    /\ UNCHANGED <<geo, bls_rows, js_levels, us_local, us_natl, local_medians,
                   natl_medians, blend_medians, estimate>>
    /\ UNCHANGED <<matchVars, geoVars, cliVars, utilVars>>

\* command line: the message is printed and run returns
CliHardStop ==
    /\ cli_pc = "match"
    /\ pc = "done"
    /\ NoMatch(returned)
    /\ cli_pc' = "stopped"
    /\ UNCHANGED <<frontend, cli_queried, cli_answers, cli_data, cli_level>>
    /\ UNCHANGED <<matchVars, blendVars, geoVars, utilVars>>

\* every level is asked that has an area id, whatever a narrower level
\* answered
CascadeQueriedNoStop(g, m, st) ==
    (IF g.msa_code # None THEN <<"metro">> ELSE <<>>)
      \o (IF g.state_code # None THEN <<"state">> ELSE <<>>)
      \o <<"national">>

\* the levels the cascade asks the wage survey for, given what each level
\* would answer: metro when there is one, state while nothing was found and
\* there is one, national while nothing was found
CascadeQueried(g, m, st) ==
    (IF g.msa_code # None THEN <<"metro">> ELSE <<>>)
      \o (IF (g.msa_code = None \/ m = None) /\ g.state_code # None THEN <<"state">> ELSE <<>>)
      \o (IF /\ (g.msa_code = None \/ m = None)
             /\ (g.state_code = None \/ st = None)
          THEN <<"national">> ELSE <<>>)

\* what the levels asked have answered, in the order asked
CascadeAnswers(queried, m, st, n) ==
    [i \in 1..Len(queried) |->
        IF queried[i] = "metro" THEN m
        ELSE IF queried[i] = "state" THEN st
        ELSE n]

\* command line: the BLS OEWS cascade with the best match
CliCascade ==
    /\ cli_pc = "match"
    /\ pc = "done"
    /\ ~NoMatch(returned)
    /\ \E m \in BlsResults, st \in BlsResults, n \in BlsResults :
          /\ cli_queried' = CascadeQueried(geo, m, st)
          /\ cli_answers' = CascadeAnswers(cli_queried', m, st, n)
          /\ cli_data' = IF geo.msa_code # None /\ m # None THEN m
                         ELSE IF geo.state_code # None /\ st # None THEN st
                         ELSE n
          /\ cli_level' = IF geo.msa_code # None /\ m # None THEN Some("Metro")
                          ELSE IF geo.state_code # None /\ st # None THEN Some("State")
                          ELSE IF n # None THEN Some("National")
                          ELSE None
    /\ cli_pc' = "done"
    /\ UNCHANGED frontend
    /\ UNCHANGED <<matchVars, blendVars, geoVars, utilVars>>

\* command line: a get_oews call of the cascade raises (run has no handler);
\* the levels asked before it had answered None
CliCascadeRaises ==
    /\ cli_pc = "match"
    /\ pc = "done"
    /\ ~NoMatch(returned)
    /\ \E k \in 1..Len(CascadeQueried(geo, None, None)) :
          /\ cli_queried' = SubSeq(CascadeQueried(geo, None, None), 1, k)
          /\ cli_answers' = [i \in 1..(k - 1) |-> None]
    /\ cli_data' = None
    /\ cli_level' = None
    /\ cli_pc' = "raised"
    /\ UNCHANGED frontend
    /\ UNCHANGED <<matchVars, blendVars, geoVars, utilVars>>

(***************************************************************************)
(* Occupation codes (utils/soc.py)                                         *)
(***************************************************************************)

\* a character matched by \d
ReDigit(c) == c \in {"0", "1", "2", "3", "4", "5", "6", "7", "8", "9"}

\* re.sub(r"[^\d]", "", soc_code)
DigitsOf(soc_code) == SelectSeq(soc_code, ReDigit)

\* every parseable code gets the suffix .00
CleanDropsSuffix(soc_code) ==
    LET digits == DigitsOf(soc_code)
    IN  IF Len(digits) = 6 \/ Len(digits) = 8
        THEN SubSeq(digits, 1, 2) \o <<"-">> \o SubSeq(digits, 3, 6) \o <<".", "0", "0">>
        ELSE soc_code

\* SOCMapper.clean
Clean(soc_code) ==
    LET digits == DigitsOf(soc_code)
    IN  IF Len(digits) = 6
        THEN SubSeq(digits, 1, 2) \o <<"-">> \o SubSeq(digits, 3, 6) \o <<".", "0", "0">>
        ELSE IF Len(digits) = 8
        THEN SubSeq(digits, 1, 2) \o <<"-">> \o SubSeq(digits, 3, 6) \o <<".">>
                 \o SubSeq(digits, 7, 8)
        ELSE soc_code

\* rows of the hardcoded map of broader codes
BROADER_FALLBACK ==
    (<<"1", "5", "-", "1", "2", "5", "2", ".", "0", "0">> :>
        << Some(<<"1", "5", "-", "1", "2", "5", "0">>),
           Some(<<"1", "5", "-", "1", "2", "0", "0">>),
           Some(<<"1", "5", "-", "0", "0", "0", "0">>) >>) @@
    (<<"1", "5", "-", "2", "0", "5", "1", ".", "0", "0">> :>
        << Some(<<"1", "5", "-", "2", "0", "5", "0">>),
           Some(<<"1", "5", "-", "1", "2", "0", "0">>),
           Some(<<"1", "5", "-", "0", "0", "0", "0">>) >>) @@
    (<<"1", "3", "-", "2", "0", "5", "1", ".", "0", "0">> :>
        << Some(<<"1", "3", "-", "2", "0", "0", "0">>),
           Some(<<"1", "3", "-", "0", "0", "0", "0">>),
           None >>)

\* [c for c in BROADER_FALLBACK[clean] if c]
RECURSIVE DropNone(_)
DropNone(s) ==
    IF s = <<>> THEN <<>>
    ELSE (IF Head(s) # None /\ Head(s)[1] # <<>> THEN <<Head(s)[1]>> ELSE <<>>)
             \o DropNone(Tail(s))

\* SOCMapper.fallback_chain
FallbackChain(soc_code) ==
    LET digits == DigitsOf(soc_code)
        mg     == Prefix(digits, 2)
        minor  == Prefix(digits, 4)
    IN  IF Clean(soc_code) \in DOMAIN BROADER_FALLBACK
        THEN DropNone(BROADER_FALLBACK[Clean(soc_code)])
        ELSE << mg \o <<"-">> \o minor \o <<"0">>,
                mg \o <<"-">> \o mg \o <<"0", "0">>,
                mg \o <<"-">> \o <<"0", "0", "0", "0">> >>

\* the codes handed to SOCMapper: canonical codes, the same codes as six
\* digits, as eight digits, without suffix, with blanks around, and strings
\* that are no code
SocInputs ==
    UNION { { mg \o <<"-">> \o d \o <<".">> \o sx,
              mg \o d,
              mg \o d \o sx,
              mg \o <<"-">> \o d,
              <<" ">> \o mg \o <<"-">> \o d \o <<".">> \o sx \o <<" ">> } :
            mg \in { <<"1", "3">>, <<"1", "5">>, <<"1", "7">> },
            d \in { <<"1", "2", "5", "2">>, <<"2", "0", "5", "1">>,
                    <<"2", "1", "1", "2">> },
            sx \in { <<"0", "0">>, <<"0", "1">> } }
      \cup { <<"n", "/", "a">>, <<"1", "5", "-", "1", "2">>, <<>> }

\* SOCMapper.clean(c), and clean applied to its own result
CleanCall(c) ==
    /\ soc_call' = "clean"
    /\ soc_arg' = c
    /\ soc_clean' = Clean(c)
    /\ soc_reclean' = Clean(Clean(c))
    /\ soc_chain' = <<>>
    /\ UNCHANGED adapterVars
    /\ UNCHANGED <<matchVars, blendVars, geoVars, cliVars>>

\* SOCMapper.fallback_chain(c)
FallbackChainCall(c) ==
    /\ soc_call' = "fallback_chain"
    /\ soc_arg' = c
    /\ soc_clean' = Clean(c)
    /\ soc_reclean' = Clean(Clean(c))
    /\ soc_chain' = FallbackChain(c)
    /\ UNCHANGED adapterVars
    /\ UNCHANGED <<matchVars, blendVars, geoVars, cliVars>>

(***************************************************************************)
(* Wage-source adapters (data_sources/jsearch.py, usajobs.py, bls.py)      *)
(***************************************************************************)

\* Amounts a live-postings source reports are carried in cents, so that
\* the rounding to whole dollars is visible; the BLS reports whole dollars.
CentsPerDollar == 100

HoursPerYear == 2080

\* the salary periods a response may carry (None: the key is missing)
HOURLY == <<"h", "o", "u", "r", "l", "y">>

HOUR == <<"h", "o", "u", "r">>

HR == <<"h", "r">>

YEARLY == <<"y", "e", "a", "r", "l", "y">>

MONTHLY == <<"m", "o", "n", "t", "h", "l", "y">>

HourlyPeriods ==
    { Some(HOURLY), Some(HOUR), Some(HR), Some(<<"H", "o", "u", "r", "l", "y">>) }

SalaryPeriods == HourlyPeriods \cup { None, Some(YEARLY), Some(MONTHLY) }

\* a median (or its first alternative key that is set) of a response, in
\* cents: missing, text that is no number, 0, 50.00, 50.01 and, in a
\* response that is not per hour, also 8000.00, 120000.50, 1500000.00
HourlyMedians ==
    { None, Some(Unreadable), Some(Num(0)), Some(Num(5000)), Some(Num(5001)) }

MedianAmounts ==
    HourlyMedians \cup { Some(Num(800000)), Some(Num(12000050)), Some(Num(150000000)) }

MediansFor(hourly) == IF hourly THEN HourlyMedians ELSE MedianAmounts

\* the other amounts of a response: missing, or 40.00 and, in a response
\* that is not per hour, also 90000.00
HourlyOthers == { None, Some(Num(4000)) }

OtherAmounts == HourlyOthers \cup { Some(Num(9000000)) }

OthersFor(hourly) == IF hourly THEN HourlyOthers ELSE OtherAmounts

\* job_count of a response
JobCounts == { None, Some(1), Some(2) }

\* what an adapter call ends in
Raises == [kind |-> "raises"]

Absent == [kind |-> "absent"]

\* to_annual(v) of _fetch_salary, rate already lower-cased
ToAnnual(v, rate) ==
    IF v = None \/ ~v[1].numeric THEN None
    ELSE IF rate \in {HOURLY, HOUR, HR}
    THEN Some(RoundDiv(v[1].value * HoursPerYear, CentsPerDollar))
    ELSE Some(RoundDiv(v[1].value, CentsPerDollar))

\* salary_data.get(key) or salary_data.get(alternative), the alternative
\* keys missing: a 0 counts as not set
FirstSet(v) == IF v = Some(Num(0)) THEN None ELSE v

\* What the salary-insights request ends in: a failure (transport error,
\* timeout, HTTP error status, body that is not JSON), a JSON list at top
\* level, a "data" list whose first entry is no object, an empty object, or
\* an object with the salary fields.
SalaryResponses ==
    { [shape |-> s] : s \in {"error", "list", "nondict", "empty"} }
      \cup UNION { { [shape |-> "object", median |-> m, pct25 |-> p, min |-> mn,
                      salary_period |-> sp, job_count |-> c] :
                     m \in MediansFor(sp \in HourlyPeriods),
                     p \in OthersFor(sp \in HourlyPeriods),
                     mn \in OthersFor(sp \in HourlyPeriods),
                     c \in JobCounts } : sp \in SalaryPeriods }

\* JSearchClient._fetch_salary
FetchSalary(resp) ==
    IF resp.shape = "error" THEN Absent
    ELSE IF resp.shape \in {"list", "nondict"} THEN Raises
    ELSE IF resp.shape = "empty" THEN Absent
    ELSE LET rate    == IF resp.salary_period = None THEN YEARLY
                        ELSE Lower(resp.salary_period[1])
             median  == ToAnnual(FirstSet(resp.median), rate)
             pct25   == ToAnnual(FirstSet(resp.pct25), rate)
             min_sal == ToAnnual(FirstSet(resp.min), rate)
         IN  IF ~Truthy(median) /\ ~Truthy(pct25) /\ ~Truthy(min_sal) THEN Absent
             ELSE [kind |-> "record", median |-> median, pct25 |-> pct25,
                   min |-> min_sal, posting_count |-> resp.job_count]

\* norm(v) of search_jobs, period already lower-cased
Norm(v, period) ==
    IF v = None \/ ~v[1].numeric THEN None
    ELSE IF period \in {HOURLY, HOUR}
    THEN Some(RoundDiv(v[1].value * HoursPerYear, CentsPerDollar))
    ELSE Some(RoundDiv(v[1].value, CentsPerDollar))

\* the postings of one search response
MaxJobs == 1

JobPostings ==
    { [dict |-> FALSE] }
      \cup UNION { { [dict |-> TRUE, job_min_salary |-> mn, job_max_salary |-> mx,
                      job_salary_period |-> sp] :
                     mn \in MediansFor(sp \in HourlyPeriods),
                     mx \in OthersFor(sp \in HourlyPeriods) } : sp \in SalaryPeriods }

SearchResponses ==
    { [shape |-> s] : s \in {"error", "list"} }
      \cup { [shape |-> "object", data |-> d] : d \in SeqsUpTo(JobPostings, MaxJobs) }

\* the loop of search_jobs over the postings
RECURSIVE SearchJobsLoop(_)
SearchJobsLoop(data) ==
    IF data = <<>> THEN <<>>
    ELSE LET job     == Head(data)
             period  == IF job.job_salary_period = None THEN <<>>
                        ELSE Lower(job.job_salary_period[1])
             min_sal == Norm(job.job_min_salary, period)
             max_sal == Norm(job.job_max_salary, period)
         IN  (IF ~Truthy(min_sal) THEN <<>>
              ELSE << [salary_min |-> min_sal, salary_max |-> max_sal] >>)
                 \o SearchJobsLoop(Tail(data))

\* JSearchClient.search_jobs
SearchJobs(resp) ==
    IF resp.shape = "error" THEN [kind |-> "postings", jobs |-> <<>>]
    ELSE IF resp.shape = "list" THEN Raises
    ELSE IF \E i \in 1..Len(resp.data) : ~resp.data[i].dict THEN Raises
    ELSE [kind |-> "postings", jobs |-> SearchJobsLoop(resp.data)]

\* RateIntervalCode of a federal posting: per annum, per hour, per month
PayRates == {"PA", "PH", "PM"}

\* one item of a USAJobs response: PositionRemuneration and JobGrade may be
\* empty lists
UsaJobsItems ==
    { [remuneration |-> FALSE] }
      \cup UNION { { [remuneration |-> TRUE, MinimumRange |-> mn, MaximumRange |-> mx,
                      RateIntervalCode |-> pr, grade |-> g] :
                     mn \in MediansFor(pr = "PH"), mx \in OthersFor(pr = "PH"),
                     g \in BOOLEAN } : pr \in PayRates }

UsaJobsResponses ==
    { [shape |-> s] : s \in {"nokey", "error", "list"} }
      \cup { [shape |-> "object", items |-> d] : d \in SeqsUpTo(UsaJobsItems, MaxJobs) }

\* the amounts of one federal posting after "Normalize to annual", in cents
\* (the floats are not rounded)
UsaJobsMin(item) ==
    IF item.MinimumRange = None \/ item.MinimumRange[1] = Num(0) THEN None
    ELSE IF ~item.MinimumRange[1].numeric THEN None
    ELSE IF item.RateIntervalCode = "PH"
    THEN Some(item.MinimumRange[1].value * HoursPerYear)
    ELSE Some(item.MinimumRange[1].value)

UsaJobsMax(item) ==
    IF item.MinimumRange # None /\ ~item.MinimumRange[1].numeric THEN None
    ELSE IF item.MaximumRange = None THEN None
    ELSE IF item.RateIntervalCode = "PH" /\ Truthy(UsaJobsMin(item))
    THEN Some(item.MaximumRange[1].value * HoursPerYear)
    ELSE Some(item.MaximumRange[1].value)

\* the loop of search over the items: TRUE when an index into an empty list
\* is taken
RECURSIVE UsaJobsLoopRaises(_)
UsaJobsLoopRaises(items) ==
    /\ items # <<>>
    /\ \/ ~Head(items).remuneration
       \/ Truthy(UsaJobsMin(Head(items))) /\ ~Head(items).grade
       \/ UsaJobsLoopRaises(Tail(items))

RECURSIVE UsaJobsLoop(_)
UsaJobsLoop(items) ==
    IF items = <<>> THEN <<>>
    ELSE (IF ~Truthy(UsaJobsMin(Head(items))) THEN <<>>
          ELSE << [salary_min |-> UsaJobsMin(Head(items)),
                   salary_max |-> UsaJobsMax(Head(items))] >>)
             \o UsaJobsLoop(Tail(items))

\* USAJobsClient.search
UsaJobsSearch(resp) ==
    IF resp.shape \in {"nokey", "error"} THEN [kind |-> "postings", jobs |-> <<>>]
    ELSE IF resp.shape = "list" THEN Raises
    ELSE IF UsaJobsLoopRaises(resp.items) THEN Raises
    ELSE [kind |-> "postings", jobs |-> UsaJobsLoop(resp.items)]

\* What the BLS request ends in: a failure (_fetch_series gives {}), a JSON
\* list at top level, a status other than REQUEST_SUCCEEDED, a series entry
\* that is no object, or the series with the value of the median series
\* (None: no such series or no data in it).
OewsResponses ==
    { [shape |-> s] : s \in {"error", "list", "failed", "nondict"} }
      \cup { [shape |-> "object", median |-> m] : m \in BlsResults }

\* BLSClient.get_oews
GetOews(resp) ==
    IF resp.shape = "error" THEN Absent
    ELSE IF resp.shape = "list" THEN Raises
    ELSE IF resp.shape = "failed" THEN Absent
    ELSE IF resp.shape = "nondict" THEN Raises
    ELSE IF resp.median = None THEN Absent
    ELSE [kind |-> "record", median |-> resp.median[1]]

FetchSalaryCall ==
    /\ ad_call = "none"
    /\ \E resp \in SalaryResponses :
          /\ ad_resp' = resp
          /\ ad_out' = FetchSalary(resp)
    /\ ad_call' = "fetch_salary"
    /\ UNCHANGED socVars
    /\ UNCHANGED <<matchVars, blendVars, geoVars, cliVars>>

SearchJobsCall ==
    /\ ad_call = "none"
    /\ \E resp \in SearchResponses :
          /\ ad_resp' = resp
          /\ ad_out' = SearchJobs(resp)
    /\ ad_call' = "search_jobs"
    /\ UNCHANGED socVars
    /\ UNCHANGED <<matchVars, blendVars, geoVars, cliVars>>

UsaJobsSearchCall ==
    /\ ad_call = "none"
    /\ \E resp \in UsaJobsResponses :
          /\ ad_resp' = resp
          /\ ad_out' = UsaJobsSearch(resp)
    /\ ad_call' = "usajobs_search"
    /\ UNCHANGED socVars
    /\ UNCHANGED <<matchVars, blendVars, geoVars, cliVars>>

GetOewsCall ==
    /\ ad_call = "none"
    /\ \E resp \in OewsResponses :
          /\ ad_resp' = resp
          /\ ad_out' = GetOews(resp)
    /\ ad_call' = "get_oews"
    /\ UNCHANGED socVars
    /\ UNCHANGED <<matchVars, blendVars, geoVars, cliVars>>

(***************************************************************************)
(* Specifications                                                          *)
(***************************************************************************)

vars == <<matchVars, blendVars, geoVars, cliVars, utilVars>>

MatchIdle ==
    /\ pc = "idle"
    /\ title = <<>>
    /\ max_results = DefaultMaxResults
    /\ normalized = <<>>
    /\ results = <<>>
    /\ seen_codes = {}
    /\ scored = <<>>
    /\ api_calls = 0
    /\ returned = <<>>

BlendIdle ==
    /\ app_pc = "bls"
    /\ bls_rows = NoRows
    /\ js_levels = NoRows
    /\ us_local = None
    /\ us_natl = None
    /\ local_medians = <<>>
    /\ natl_medians = <<>>
    /\ blend_medians = <<>>
    /\ estimate = None

GeoIdle ==
    /\ geo_cache = <<>>
    /\ geo_pc = [t \in Threads |-> "idle"]
    /\ geo_arg = [t \in Threads |-> <<>>]
    /\ geo_res = [t \in Threads |-> None]
    /\ geo_answer = [t \in Threads |-> None]
    /\ geo_ret = [t \in Threads |-> None]
    /\ geocode_calls = [loc \in Locations |-> 0]
    /\ geo_outs = [loc \in Locations |-> {}]
    /\ geo_ncalls = 0

CliIdle ==
    /\ frontend = "web"
    /\ cli_pc = "off"
    /\ cli_queried = <<>>
    /\ cli_answers = <<>>
    /\ cli_data = None
    /\ cli_level = None

UtilIdle ==
    /\ ad_call = "none"
    /\ ad_resp = [shape |-> "none"]
    /\ ad_out = [kind |-> "none"]
    /\ soc_call = "none"
    /\ soc_arg = <<>>
    /\ soc_clean = <<>>
    /\ soc_reclean = <<>>
    /\ soc_chain = <<>>

\* the matcher: one search_occupations call of a client
InitMatch ==
    /\ MatchIdle
    /\ username \in Usernames
    /\ BlendIdle
    /\ geo = [msa_code |-> None, state_code |-> None]
    /\ GeoIdle
    /\ UtilIdle
    /\ CliIdle

NextMatch ==
    \/ \E t \in Titles, m \in MaxResultsChoices : StartSearch(t, m)
    \/ ExactStep
    \/ FuzzyStep
    \/ ApiStep
    \/ ApiSkip
    \/ Return

SpecMatch == InitMatch /\ [][NextMatch]_vars

\* the pipeline: one request, from the first source to the blend box
InitBlend ==
    /\ MatchIdle
    /\ username = ""
    /\ BlendIdle
    /\ geo \in Geos
    /\ GeoIdle
    /\ UtilIdle
    /\ CliIdle

NextBlend ==
    \/ BlsStep
    \/ JSearchStep
    \/ UsaJobsStep
    \/ AdapterRaises
    \/ BlendStep

SpecBlend == InitBlend /\ [][NextBlend]_vars

\* the resolver: calls of resolve_msa one after another in one process
InitGeo ==
    /\ MatchIdle
    /\ username = ""
    /\ BlendIdle
    /\ geo = [msa_code |-> None, state_code |-> None]
    /\ GeoIdle
    /\ UtilIdle
    /\ CliIdle

NextGeo ==
    \/ \E loc \in Locations : CacheHit(1, loc)
    \/ \E loc \in Locations : CacheMiss(1, loc)
    \/ ResolveStatic(1)
    \/ ResolveGeocode(1)
    \/ Publish(1)

SpecGeo == InitGeo /\ [][NextGeo]_vars

\* the resolver under concurrent requests
ThreadLocations ==
    { << "A", "u", "s", "t", "i", "n", ",", " ", "T", "X" >>,
      << "S", "m", "a", "l", "l", "v", "i", "l", "l", "e", ",", " ", "K", "S" >>,
      << "s", "m", "a", "l", "l", "v", "i", "l", "l", "e", ",", " ", "k", "s", " " >> }

NextGeoThreads ==
    \/ \E t \in Threads, loc \in ThreadLocations : CacheHit(t, loc)
    \/ \E t \in Threads, loc \in ThreadLocations : CacheMiss(t, loc)
    \/ \E t \in Threads : ResolveStatic(t)
    \/ \E t \in Threads : ResolveGeocode(t)
    \/ \E t \in Threads : Publish(t)

SpecGeoThreads == InitGeo /\ [][NextGeoThreads]_vars

\* the job titles of the requests
RequestTitles ==
    { << "z", "z", "z" >>,
      << " ", "S", "W", "E", "\t" >> }

\* one request of either front end, from search_occupations on; the
\* location has been resolved, to no metro and no state
InitRequest ==
    /\ MatchIdle
    /\ username \in Usernames
    /\ frontend \in {"web", "cli"}
    /\ app_pc = (IF frontend = "web" THEN "match" ELSE "off")
    /\ cli_pc = (IF frontend = "cli" THEN "match" ELSE "off")
    /\ cli_queried = <<>>
    /\ cli_answers = <<>>
    /\ cli_data = None
    /\ cli_level = None
    /\ bls_rows = NoRows
    /\ js_levels = NoRows
    /\ us_local = None
    /\ us_natl = None
    /\ local_medians = <<>>
    /\ natl_medians = <<>>
    /\ blend_medians = <<>>
    /\ estimate = None
    /\ geo = [msa_code |-> None, state_code |-> None]
    /\ GeoIdle
    /\ UtilIdle

NextRequest ==
    \/ \E t \in RequestTitles : RequestSearch(t)
    \/ ExactStep
    \/ FuzzyStep
    \/ ApiStep
    \/ ApiSkip
    \/ Return
    \/ WebHardStop
    \/ WebChoose
    \/ CliHardStop
    \/ CliCascade
    \/ CliCascadeRaises
    \/ BlsStep
    \/ JSearchStep
    \/ UsaJobsStep
    \/ AdapterRaises
    \/ BlendStep

SpecRequest == InitRequest /\ [][NextRequest]_vars

\* the command line: a match, then the wage-survey cascade for the resolved
\* location
InitCli ==
    /\ MatchIdle
    /\ username \in Usernames
    /\ frontend = "cli"
    /\ app_pc = "off"
    /\ cli_pc = "match"
    /\ cli_queried = <<>>
    /\ cli_answers = <<>>
    /\ cli_data = None
    /\ cli_level = None
    /\ bls_rows = NoRows
    /\ js_levels = NoRows
    /\ us_local = None
    /\ us_natl = None
    /\ local_medians = <<>>
    /\ natl_medians = <<>>
    /\ blend_medians = <<>>
    /\ estimate = None
    /\ geo \in Geos
    /\ GeoIdle
    /\ UtilIdle

NextCli ==
    \/ \E t \in RequestTitles : RequestSearch(t)
    \/ ExactStep
    \/ FuzzyStep
    \/ ApiStep
    \/ ApiSkip
    \/ Return
    \/ CliHardStop
    \/ CliCascade
    \/ CliCascadeRaises

SpecCli == InitCli /\ [][NextCli]_vars

\* the occupation-code utility: calls of SOCMapper on the codes above
InitSoc ==
    /\ MatchIdle
    /\ username = ""
    /\ BlendIdle
    /\ geo = [msa_code |-> None, state_code |-> None]
    /\ GeoIdle
    /\ UtilIdle
    /\ CliIdle

NextSoc ==
    \/ \E c \in SocInputs : CleanCall(c)
    \/ \E c \in SocInputs : FallbackChainCall(c)

SpecSoc == InitSoc /\ [][NextSoc]_vars

\* the adapters: one call of one adapter on one response of its collaborator
InitAdapters ==
    /\ MatchIdle
    /\ username = ""
    /\ BlendIdle
    /\ geo = [msa_code |-> None, state_code |-> None]
    /\ GeoIdle
    /\ UtilIdle
    /\ CliIdle

NextAdapters ==
    \/ FetchSalaryCall
    \/ SearchJobsCall
    \/ UsaJobsSearchCall
    \/ GetOewsCall

SpecAdapters == InitAdapters /\ [][NextAdapters]_vars

(***************************************************************************)
(* The blended estimate: C1 - C3 (under SpecBlend)                         *)
(***************************************************************************)

\* the median of an observation, when it has one that can be used
ObservedMedian(rows, lvl) ==
    IF rows[lvl] # None /\ rows[lvl][1].numeric /\ rows[lvl][1].value # 0
    THEN <<rows[lvl][1].value>>
    ELSE <<>>

\* the metro- and state-level medians of the two blendable sources
ObservedLocal ==
    ObservedMedian(bls_rows, "metro") \o ObservedMedian(bls_rows, "state")
        \o ObservedMedian(js_levels, "metro") \o ObservedMedian(js_levels, "state")

\* their national medians
ObservedNational ==
    ObservedMedian(bls_rows, "national") \o ObservedMedian(js_levels, "national")

\* C1: the estimate is computed from the metro/state medians whenever one
\* exists (scope local, no national median among the contributors), from
\* the national medians iff there is no metro/state median and there is a
\* national one (scope national-fallback), and there is no estimate when
\* there is no median at all.
C1_BlendSetSelection ==
    app_pc = "done" =>
        /\ ObservedLocal # <<>> =>
              /\ estimate # None
              /\ estimate[1].scope = "local"
              /\ blend_medians = ObservedLocal
        /\ (estimate # None /\ estimate[1].scope = "national-fallback")
              <=> (ObservedLocal = <<>> /\ ObservedNational # <<>>)
        /\ (ObservedLocal = <<>> /\ ObservedNational # <<>>) =>
              blend_medians = ObservedNational
        /\ (ObservedLocal = <<>> /\ ObservedNational = <<>>) => estimate = None

C1_Witness ==
    /\ app_pc = "done"
    /\ ObservedLocal # <<>>
    /\ ObservedNational # <<>>
    /\ estimate # None
    /\ estimate[1].scope = "local"
    /\ estimate[1].count = Len(ObservedLocal)

\* v is num / den rounded to the nearest integer, a tie to the even one
IsNearestInteger(v, num, den) ==
    /\ 2 * (v * den - num) <= den
    /\ 2 * (num - v * den) <= den
    /\ (2 * (v * den - num) = den \/ 2 * (num - v * den) = den) => v % 2 = 0

IsMin(v, s) == (\E i \in 1..Len(s) : s[i] = v) /\ (\A i \in 1..Len(s) : v <= s[i])

IsMax(v, s) == (\E i \in 1..Len(s) : s[i] = v) /\ (\A i \in 1..Len(s) : v >= s[i])

\* C2 as stated: the value is the arithmetic mean of the selected medians,
\* the range their (min, max), the count their number.
C2_ExactMean ==
    (app_pc = "done" /\ estimate # None) =>
        /\ estimate[1].value * Len(blend_medians) = SumSeq(blend_medians)
        /\ IsMin(estimate[1].low, blend_medians)
        /\ IsMax(estimate[1].high, blend_medians)
        /\ estimate[1].count = Len(blend_medians)

\* C2, amended: the value is the arithmetic mean of the selected medians
\* rounded to the nearest whole dollar (a tie to the even one), the range
\* their (min, max), the count their number.
C2_RoundedMean ==
    (app_pc = "done" /\ estimate # None) =>
        /\ IsNearestInteger(estimate[1].value, SumSeq(blend_medians), Len(blend_medians))
        /\ IsMin(estimate[1].low, blend_medians)
        /\ IsMax(estimate[1].high, blend_medians)
        /\ estimate[1].count = Len(blend_medians)

\* metro 90000 and state 95000 with a national 80000
C2_Witness ==
    /\ app_pc = "done"
    /\ bls_rows = [metro |-> Some(Num(90000)), state |-> Some(Num(95000)),
                   national |-> Some(Num(80000))]
    /\ js_levels = NoRows
    /\ estimate = Some([value |-> 92500, scope |-> "local", low |-> 90000,
                        high |-> 95000, count |-> 2])

\* C3: whatever the two USAJobs searches return, no USAJobs figure is in
\* the median lists, and the estimate is the one the BLS and JSearch
\* observations alone give.
C3_UsaJobsNotBlended ==
    /\ app_pc \in {"blend", "done"} =>
          /\ local_medians = ObservedLocal
          /\ natl_medians = ObservedNational
    /\ app_pc = "done" =>
          estimate = IF BlendMedians(ObservedLocal, ObservedNational) # <<>>
                     THEN Some(BlendBox(BlendMedians(ObservedLocal, ObservedNational),
                                        ObservedLocal))
                     ELSE None

C3_Witness ==
    /\ app_pc = "done"
    /\ us_local # None
    /\ us_natl # None
    /\ estimate # None
    /\ us_local[1].median \notin {blend_medians[i] : i \in 1..Len(blend_medians)}

(***************************************************************************)
(* The occupation matcher: C4 - C10 (under SpecMatch)                      *)
(***************************************************************************)

\* the normalized form of a title: lowercased, trimmed, whitespace collapsed
NormalForm(t) == CollapseSpaces(Strip(Lower(t)))

\* C4: a title whose normalized form is a key of the table gets a non-empty
\* list whose first element is that key's code and title, with confidence
\* 1.0 and the exact method.
C4_ExactFirst ==
    (pc = "done" /\ NormalForm(title) \in TableKeys) =>
        /\ Len(returned) >= 1
        /\ returned[1].code = TableRow(NormalForm(title)).code
        /\ returned[1].title = TableRow(NormalForm(title)).title
        /\ returned[1].score = 1000
        /\ returned[1].source = "local_map"

C4_Witness ==
    /\ pc = "done"
    /\ title # NormalForm(title)
    /\ NormalForm(title) \in TableKeys
    /\ Len(returned) >= 1
    /\ returned[1].source = "local_map"

\* C5: the returned list holds no two results with the same code and at
\* most max_results results.
C5_NoDuplicateCodes ==
    pc = "done" =>
        /\ \A i, j \in 1..Len(returned) : returned[i].code = returned[j].code => i = j
        /\ Len(returned) <= max_results

\* the external lookup listed a code twice, and more came than fit
C5_Witness ==
    /\ pc = "done"
    /\ api_calls = 1
    /\ Len(results) > max_results
    /\ Len(returned) = max_results
    /\ max_results >= 2

IsFuzzy(r) == r.source = "fuzzy"

\* C6 as stated: every fuzzy result is a table key at ratio >= 0.68 to the
\* normalized title and its confidence is that ratio.
C6_FuzzyConfidenceIsRatio ==
    pc = "done" =>
        \A i \in 1..Len(returned) :
            IsFuzzy(returned[i]) =>
                /\ returned[i].key \in TableKeys
                /\ TableRow(returned[i].key).code = returned[i].code
                /\ LET ratio == Ratio(normalized, returned[i].key)
                   IN  /\ ratio[1] * 100 >= 68 * ratio[2]
                       /\ returned[i].score * ratio[2] = 1000 * ratio[1]

\* C6, amended: every fuzzy result is a table key at ratio >= 0.68 to the
\* normalized title and its confidence is that ratio rounded to three
\* decimals (still >= 0.68); so a title with no key at or above 0.68 gets
\* no fuzzy result.
C6_FuzzyThreshold ==
    pc = "done" =>
        \A i \in 1..Len(returned) :
            IsFuzzy(returned[i]) =>
                /\ returned[i].key \in TableKeys
                /\ TableRow(returned[i].key).code = returned[i].code
                /\ LET ratio == Ratio(normalized, returned[i].key)
                   IN  /\ ratio[1] * 100 >= 68 * ratio[2]
                       /\ IsNearestInteger(returned[i].score, 1000 * ratio[1], ratio[2])
                       /\ returned[i].score >= 680

\* a fuzzy result whose ratio has more than three decimals
C6_Witness ==
    /\ pc = "done"
    /\ \E i \in 1..Len(returned) :
          /\ IsFuzzy(returned[i])
          /\ LET ratio == Ratio(normalized, returned[i].key)
             IN  returned[i].score * ratio[2] # 1000 * ratio[1]

\* C7: every returned result has a confidence in [0.0, 1.0], and it is 1.0
\* iff the method is exact.
C7_ConfidenceRange ==
    pc = "done" =>
        \A i \in 1..Len(returned) :
            /\ returned[i].score >= 0
            /\ returned[i].score <= 1000
            /\ returned[i].score = 1000 <=> returned[i].source = "local_map"

\* C8: while the output is shorter than max_results, every code that has a
\* key at or above the threshold is in the output.
C8_FuzzyComplete ==
    (pc = "done" /\ Len(returned) < max_results) =>
        \A i \in 1..Len(scored) : scored[i].code \in Codes(returned)

IsPrefixOf(s, t) == Len(s) <= Len(t) /\ SubSeq(t, 1, Len(s)) = s

\* C9: the external lookup is invoked at most once in a call, only when
\* the exact and fuzzy tiers gave fewer than 2 results and a credential is
\* configured; its results go after all local results, each with a code not
\* yet present; no other step adds an external result.
C9_ApiGating ==
    [][ /\ api_calls' # api_calls =>
              /\ api_calls = 0
              /\ api_calls' = 1
              /\ Len(results) < 2
              /\ username # ""
              /\ \A i \in 1..Len(results) : results[i].source # "onet_api"
              /\ IsPrefixOf(results, results')
              /\ \A i \in (Len(results) + 1)..Len(results') :
                    /\ results'[i].source = "onet_api"
                    /\ \A j \in 1..(i - 1) : results'[j].code # results'[i].code
        /\ api_calls' = api_calls =>
              \A i \in 1..Len(results') :
                  results'[i].source = "onet_api" =>
                      (i <= Len(results) /\ results[i] = results'[i])
      ]_vars

\* the lookup ran after one local result, added a result and skipped a code
C9_Witness ==
    /\ pc = "done"
    /\ api_calls = 1
    /\ Len(results) = 2
    /\ results[1].source # "onet_api"
    /\ results[2].source = "onet_api"
    /\ max_results = DefaultMaxResults

\* C10: the returned list is in non-increasing order of confidence, the
\* externally supplied results included.
C10_DescendingConfidence ==
    pc = "done" =>
        \A i, j \in 1..Len(returned) : i < j => returned[i].score >= returned[j].score

IsDigit(c) == c \in {"0", "1", "2", "3", "4", "5", "6", "7", "8", "9"}

\* two digits, hyphen, four digits, period, two digits
IsCanonicalCode(code) ==
    /\ Len(code) = 10
    /\ \A i \in {1, 2, 4, 5, 6, 7, 9, 10} : IsDigit(code[i])
    /\ code[3] = "-"
    /\ code[8] = "."

\* C11: every result returned by search_occupations, whichever step produced
\* it, carries a code in canonical form.
C11_CanonicalCodes ==
    pc = "done" =>
        \A i \in 1..Len(returned) : IsCanonicalCode(returned[i].code)

(***************************************************************************)
(* Geography resolution: C13 - C20 (under SpecGeo and SpecGeoThreads)      *)
(***************************************************************************)

\* the text after the last comma, trimmed and upper-cased; "" without a comma
StateText(loc) ==
    IF LastComma(loc) = 0 THEN <<>>
    ELSE Upper(Strip(SubSeq(loc, LastComma(loc) + 1, Len(loc))))

\* the input is "City, ST" with ST, in any letter case, a key of the state table
HasTableState(loc) == LastComma(loc) # 0 /\ StateText(loc) \in DOMAIN STATE_FIPS

\* the state fields the table gives for such an input
TableStateCode(loc) == <<"S">> \o STATE_FIPS[StateText(loc)] \o <<"0", "0", "0", "0", "0">>

TableStateName(loc) == STATE_NAMES[STATE_FIPS[StateText(loc)]]

\* a call of resolve_msa(loc) has just returned v to some thread
Returned(loc, v) ==
    \E t \in Threads : geo_ret[t] # None /\ geo_ret[t][1] = [arg |-> loc, value |-> v]

CityText(loc) ==
    IF LastComma(loc) = 0 THEN Lower(Strip(loc))
    ELSE Lower(Strip(SubSeq(loc, 1, LastComma(loc) - 1)))

\* the rows of the city table whose key is the input's (city, state)
KeyRows(loc) ==
    {i \in 1..Len(CITY_TO_CBSA) :
        /\ LastComma(loc) # 0
        /\ CITY_TO_CBSA[i].city = CityText(loc)
        /\ CITY_TO_CBSA[i].state = Lower(StateText(loc))}

\* C14: for every (city, state) key of the city table, resolve_msa("city, ST")
\* returns a metro whose area id is "M" + the entry's code + "00", whatever
\* the geocoder does.
C14_TableCityHasMetro ==
    \A t \in Threads :
        geo_ret[t] # None =>
            \A i \in KeyRows(geo_ret[t][1].arg) :
                geo_ret[t][1].value.msa_code =
                    Some(<<"M">> \o CITY_TO_CBSA[i].cbsa \o <<"0", "0">>)

\* the rows of the city table with the input's city name, whatever the state
CityRows(loc) == {i \in 1..Len(CITY_TO_CBSA) : CITY_TO_CBSA[i].city = CityText(loc)}

FirstCityRow(loc) == CHOOSE i \in CityRows(loc) : \A j \in CityRows(loc) : i <= j

\* C15: when the exact (city, state) pair is not a key of the city table, an
\* input without a comma included, the city name alone is matched and the
\* first entry in table order gives the metro.
C15_CityOnlyFallback ==
    \A t \in Threads :
        (/\ geo_ret[t] # None
         /\ KeyRows(geo_ret[t][1].arg) = {}
         /\ CityRows(geo_ret[t][1].arg) # {}) =>
            LET cbsa == CITY_TO_CBSA[FirstCityRow(geo_ret[t][1].arg)].cbsa
            IN  cbsa \in DOMAIN CBSA_TO_BLS =>
                    /\ geo_ret[t][1].value.cbsa_fips = Some(cbsa)
                    /\ geo_ret[t][1].value.msa_code = Some(CBSA_TO_BLS[cbsa].bls_code)

\* C16: when the text after the last comma, trimmed and upper-cased, is not
\* an abbreviation of the state table, the state is absent, no other state
\* stands in for it, and the metro is still looked up.
C16_UnknownStateAbsent ==
    \A t \in Threads :
        (/\ geo_ret[t] # None
         /\ LastComma(geo_ret[t][1].arg) # 0
         /\ StateText(geo_ret[t][1].arg) \notin DOMAIN STATE_FIPS) =>
            /\ geo_ret[t][1].value.state_code = None
            /\ (/\ CityRows(geo_ret[t][1].arg) # {}
                /\ CITY_TO_CBSA[FirstCityRow(geo_ret[t][1].arg)].cbsa \in DOMAIN CBSA_TO_BLS) =>
                    geo_ret[t][1].value.msa_code # None

\* the geocoder failed: it raised, or it found nothing
GeocoderFailed(answer) == ~answer.ok \/ answer.result = None

\* C17: whenever the geocoder fails, resolve_msa still returns a result, with
\* no metro and with the state fields as the state table gave them; and the
\* geocoder is asked only when the hardcoded lookup produced no metro.
C17_GeocodingDegradation ==
    \A t \in Threads :
        (geo_pc[t] = "publish" /\ geo_answer[t] # None) =>
            /\ ~StaticHit(geo_arg[t])
            /\ geo_res[t] # None
            /\ GeocoderFailed(geo_answer[t][1]) =>
                  /\ geo_res[t][1].msa_code = None
                  /\ geo_res[t][1].msa_name = None
                  /\ geo_res[t][1].cbsa_fips = None
                  /\ geo_res[t][1].state_code =
                        StateCode(StateFips(ParseLocation(geo_arg[t]).state))
                  /\ geo_res[t][1].state_name =
                        StateName(StateFips(ParseLocation(geo_arg[t]).state),
                                  ParseLocation(geo_arg[t]).state)
                  /\ geo_res[t][1].state_abbr = ParseLocation(geo_arg[t]).state

\* the geocoder raised for a Kansas town: the result has Kansas and no metro
C17_Witness ==
    \E t \in Threads :
        /\ geo_pc[t] = "publish"
        /\ geo_answer[t] = Some([ok |-> FALSE, result |-> None])
        /\ geo_res[t][1].msa_code = None
        /\ geo_res[t][1].state_code = Some(<<"S", "2", "0", "0", "0", "0", "0", "0">>)

\* C18: over any sequence of calls in one process, the geocoder is asked for
\* at most one of the calls carrying a given string, and all the calls
\* carrying that string return the same result, whatever is resolved in
\* between.
C18_ComputedOnce ==
    \A loc \in Locations :
        /\ geocode_calls[loc] <= 1
        /\ Cardinality(geo_outs[loc]) <= 1

\* the two inputs differ at most in leading/trailing whitespace and letter case
SameFolded(a, b) == Lower(Strip(a)) = Lower(Strip(b))

\* C19: two inputs that differ only in leading/trailing whitespace or in
\* letter case get equal results (same metro id, same state id), whatever the
\* geocoder does.
C19_FoldedInputsAgree ==
    \A a, b \in Locations :
        (a # b /\ SameFolded(a, b)) =>
            \A x \in geo_outs[a], y \in geo_outs[b] :
                /\ x.msa_code = y.msa_code
                /\ x.state_code = y.state_code

\* C20: when two threads resolve the same string at the same time on a cold
\* cache, the values they are about to store and return are equal.
C20_ConcurrentWritesAgree ==
    \A t1, t2 \in Threads :
        (/\ geo_pc[t1] = "publish"
         /\ geo_pc[t2] = "publish"
         /\ geo_arg[t1] = geo_arg[t2]) =>
            geo_res[t1] = geo_res[t2]

(***************************************************************************)
(* The hard stop: C12 (under SpecRequest)                                  *)
(***************************************************************************)

\* no wage-source adapter has been invoked in the request
NoAdapterInvoked ==
    /\ app_pc \in {"match", "stopped", "off"}
    /\ cli_pc \in {"match", "stopped", "off"}
    /\ bls_rows = NoRows
    /\ js_levels = NoRows
    /\ us_local = None
    /\ us_natl = None
    /\ cli_queried = <<>>
    /\ cli_data = None

\* C12: search_occupations returns an empty list when no tier matches, the
\* external lookup failing included; and in the web pipeline and in the
\* command line alike no wage source is invoked unless the match list has
\* been returned and is not empty.
C12_HardStop ==
    /\ (/\ pc = "done"
        /\ normalized \notin TableKeys
        /\ scored = <<>>
        /\ \A i \in 1..Len(results) : results[i].source # "onet_api") =>
            returned = <<>>
    /\ (pc # "done" \/ returned = <<>>) => NoAdapterInvoked

\* the external lookup was tried and gave nothing, and the web request stopped
C12_Witness ==
    /\ app_pc = "stopped"
    /\ pc = "done"
    /\ api_calls = 1
    /\ returned = <<>>
    /\ NoAdapterInvoked

(***************************************************************************)
(* Occupation-code claims                                                  *)
(***************************************************************************)

\* C21: SOCMapper.clean returns a code already in canonical form unchanged,
\* and cleaning the result of clean again changes nothing, whatever the
\* input was.
C21_CleanRoundTrip ==
    soc_call # "none" =>
        /\ IsCanonicalCode(soc_arg) => soc_clean = soc_arg
        /\ soc_reclean = soc_clean

\* clean was called on a canonical code whose suffix is not 00
C21_Witness ==
    /\ soc_call = "clean"
    /\ IsCanonicalCode(soc_arg)
    /\ SubSeq(soc_arg, 9, 10) = <<"0", "1">>
    /\ soc_clean = soc_arg

\* two digits, hyphen, four digits
IsBroadCode(code) ==
    /\ Len(code) = 7
    /\ \A i \in {1, 2, 4, 5, 6, 7} : IsDigit(code[i])
    /\ code[3] = "-"

\* C30: for a canonical code, fallback_chain returns a non-empty list of
\* codes of the form two digits, hyphen, four digits; the first is the first
\* five digits of the code followed by 0 and the last is the major group
\* followed by -0000.
C30_FallbackChain ==
    (soc_call = "fallback_chain" /\ IsCanonicalCode(soc_arg)) =>
        /\ soc_chain # <<>>
        /\ \A i \in 1..Len(soc_chain) : IsBroadCode(soc_chain[i])
        /\ soc_chain[1] = SubSeq(soc_arg, 1, 6) \o <<"0">>
        /\ soc_chain[Len(soc_chain)] = SubSeq(soc_arg, 1, 2) \o <<"-", "0", "0", "0", "0">>

(***************************************************************************)
(* Adapter claims                                                          *)
(***************************************************************************)

\* the period of a response says per hour
HourlyMarked(sp) == sp # None /\ Lower(sp[1]) \in {HOURLY, HOUR, HR}

\* the period of a response says per year, or is missing
YearlyOrUnset(sp) == sp = None \/ Lower(sp[1]) = YEARLY

\* the period of a response says per month
MonthlyMarked(sp) == sp # None /\ Lower(sp[1]) = MONTHLY

\* a source amount that is set and numeric
IsAmount(v) == v # None /\ v[1].numeric /\ v[1].value # 0

WageFields == {"median", "pct25", "min"}

\* the returned value out is the source amount v converted as stated for
\* the period sp: times 2080 when hourly, unchanged when yearly or
\* unspecified, in both cases to the whole dollar
HourlyConverted(v, sp, out) ==
    /\ HourlyMarked(sp) =>
          out = Some(RoundDiv(v[1].value * HoursPerYear, CentsPerDollar))
    /\ YearlyOrUnset(sp) =>
          out = Some(RoundDiv(v[1].value, CentsPerDollar))

\* C22: when a live-postings response marks its period as hourly every
\* returned wage is the source value times 2080, and when the period is
\* yearly or unspecified the value is returned unchanged, both rounded to
\* the whole dollar; for the salary record and for each returned posting.
C22_HourlyConversion ==
    /\ (ad_call = "fetch_salary" /\ ad_out.kind = "record") =>
          \A f \in WageFields :
              IsAmount(ad_resp[f]) =>
                  HourlyConverted(ad_resp[f], ad_resp.salary_period, ad_out[f])
    /\ (ad_call = "search_jobs" /\ ad_out.kind = "postings") =>
          \A j \in 1..Len(ad_out.jobs) :
              \E i \in 1..Len(ad_resp.data) :
                  /\ IsAmount(ad_resp.data[i].job_min_salary)
                  /\ HourlyConverted(ad_resp.data[i].job_min_salary,
                                     ad_resp.data[i].job_salary_period,
                                     ad_out.jobs[j].salary_min)
                  /\ IsAmount(ad_resp.data[i].job_max_salary) =>
                         HourlyConverted(ad_resp.data[i].job_max_salary,
                                         ad_resp.data[i].job_salary_period,
                                         ad_out.jobs[j].salary_max)

\* C23: every amount of a returned observation is annual: hourly amounts
\* times 2080 and monthly amounts times 12 (to the whole dollar where the
\* adapter rounds), for the salary record and for the federal postings.
C23_AnnualizedUsd ==
    /\ (ad_call = "fetch_salary" /\ ad_out.kind = "record") =>
          \A f \in WageFields :
              IsAmount(ad_resp[f]) =>
                  /\ HourlyMarked(ad_resp.salary_period) =>
                        ad_out[f] = Some(RoundDiv(ad_resp[f][1].value * HoursPerYear,
                                                  CentsPerDollar))
                  /\ MonthlyMarked(ad_resp.salary_period) =>
                        ad_out[f] = Some(RoundDiv(ad_resp[f][1].value * 12,
                                                  CentsPerDollar))
    /\ (ad_call = "usajobs_search" /\ ad_out.kind = "postings") =>
          \A j \in 1..Len(ad_out.jobs) :
              \E i \in 1..Len(ad_resp.items) :
                  LET item == ad_resp.items[i]
                  IN  /\ item.remuneration
                      /\ IsAmount(item.MinimumRange)
                      /\ item.RateIntervalCode = "PH" =>
                            ad_out.jobs[j].salary_min =
                                Some(item.MinimumRange[1].value * HoursPerYear)
                      /\ item.RateIntervalCode = "PM" =>
                            ad_out.jobs[j].salary_min =
                                Some(item.MinimumRange[1].value * 12)
                      /\ item.RateIntervalCode = "PA" =>
                            ad_out.jobs[j].salary_min = Some(item.MinimumRange[1].value)

\* an annual amount in dollars, when there is one, is at least 15,000 and at
\* most 1,000,000
Plausible(out) == out # None => (out[1] >= 15000 /\ out[1] <= 1000000)

\* C24: a live-postings adapter returns no observation and no posting with
\* an annual salary below 15,000 or above 1,000,000.
C24_PlausibilityFilter ==
    /\ (ad_call = "fetch_salary" /\ ad_out.kind = "record") =>
          \A f \in WageFields : Plausible(ad_out[f])
    /\ (ad_call = "search_jobs" /\ ad_out.kind = "postings") =>
          \A j \in 1..Len(ad_out.jobs) :
              Plausible(ad_out.jobs[j].salary_min) /\ Plausible(ad_out.jobs[j].salary_max)

\* C25: the live-postings adapter returns a record only for a response
\* backed by at least two salary-disclosing postings.
C25_MinimumEvidence ==
    (ad_call = "fetch_salary" /\ ad_out.kind = "record") =>
        (ad_resp.job_count # None /\ ad_resp.job_count[1] >= 2)

\* C26: whatever the collaborator answers, an adapter call returns (None,
\* an empty list, or data) and does not raise.
C26_AdaptersNeverRaise ==
    ad_call # "none" => ad_out.kind # "raises"

\* C27: every record returned by get_oews or _fetch_salary carries a usable
\* numeric median.
C27_MedianRequired ==
    /\ (ad_call = "fetch_salary" /\ ad_out.kind = "record") => Truthy(ad_out.median)
    /\ (ad_call = "get_oews" /\ ad_out.kind = "record") => ad_out.median.numeric

(***************************************************************************)
(* Command-line cascade claim                                              *)
(***************************************************************************)

\* the place of a level in the cascade
LevelRank(l) == IF l = "metro" THEN 1 ELSE IF l = "state" THEN 2 ELSE 3

Asked(l) == \E i \in 1..Len(cli_queried) : cli_queried[i] = l

\* level l was asked and returned data
GotData(l) ==
    \E i \in 1..Len(cli_answers) : cli_queried[i] = l /\ cli_answers[i] # None

\* C29: the command line asks the wage survey level by level, one query per
\* level and never twice: metro first and only with a metro id, state only
\* when metro gave no data and there is a state id, national only when
\* neither gave data; the level reported is the most specific one that
\* returned data, or none.
C29_CascadeOrder ==
    cli_pc \in {"done", "raised"} =>
        /\ \A i, j \in 1..Len(cli_queried) :
              i < j => LevelRank(cli_queried[i]) < LevelRank(cli_queried[j])
        /\ Len(cli_queried) <= 3
        /\ Asked("metro") <=> geo.msa_code # None
        /\ Asked("state") => (geo.state_code # None /\ ~GotData("metro"))
        /\ Asked("national") => (~GotData("metro") /\ ~GotData("state"))
        /\ cli_pc = "done" =>
              /\ Asked("state") <=> (geo.state_code # None /\ ~GotData("metro"))
              /\ Asked("national") <=> (~GotData("metro") /\ ~GotData("state"))
              /\ cli_level = IF GotData("metro") THEN Some("Metro")
                             ELSE IF GotData("state") THEN Some("State")
                             ELSE IF GotData("national") THEN Some("National")
                             ELSE None

\* metro was asked and gave nothing, state was asked and gave data, and
\* national was not asked
C29_Witness ==
    /\ cli_pc = "done"
    /\ cli_queried = <<"metro", "state">>
    /\ cli_answers[1] = None
    /\ cli_answers[2] # None
    /\ cli_level = Some("State")

(***************************************************************************)
(* Local blend set claim                                                   *)
(***************************************************************************)

\* C28: for a location without resolved state no source holds the answer of
\* a state-level query, and for a location with neither metro nor state no
\* median at all is counted as local.
C28_LocalMeansLocal ==
    /\ geo.state_code = None =>
          (bls_rows.state = None /\ js_levels.state = None)
    /\ (geo.msa_code = None /\ geo.state_code = None) => local_medians = <<>>

=============================================================================
